---- MODULE Spec2Model ----
(***************************************************************************)
(* The task-execution control loop of Lleam (src/main.py, src/tools.py):   *)
(* execute_single_task drives one LLM conversation, dispatches tool calls, *)
(* escalates the sampling temperature on repeated failures and locks the   *)
(* tools for one call after five identical failures.                       *)
(*                                                                         *)
(* Conventions.  Temperatures 0.0 and 1.0 are the integers 0 and 1.  A     *)
(* Python string produced by a tool is a sequence of tokens, so that       *)
(* result.startswith("Error") is a test on the first token.  A tool input  *)
(* (a dict) is an ordered sequence of <<key, value>> pairs.  An optional   *)
(* value (None or v) is the sequence <<>> or <<v>>.  A message whose       *)
(* content is a plain string is a turn whose content holds one block of    *)
(* type "string".                                                          *)
(***************************************************************************)
EXTENDS Integers, Sequences, FiniteSets, TLC

VARIABLES
    mode,                     \* "player" | "coach" (parameter of execute_single_task)
    requires_coverage,        \* value of should_call_coverage_report(message_text)
    messages,                 \* the conversation of the running session
    temperature,
    error_history,
    disable_tools_next_call,
    allow_tools,              \* tool availability of the most recent loop call
    coverage_report_called,
    final_output_called,
    tool_call_error,
    tool_results,             \* the three locals below hold what the last call of
    has_tool_use,             \*   process_message_content returned
    current_errors,
    last_message,             \* <<>> (None) or <<message>>
    summary_message,          \* get_code_summary_report's message: <<>> or <<content>>
    LAST_FINAL_OUTPUT,        \* tools.LAST_FINAL_OUTPUT: <<>> (None) or <<payload>>
    calls,                    \* the requests handed to send_message, in order
    transition,               \* the exit the last loop iteration took
    pc,                       \* "send" | "summary" | "returned" | "raised"
    result,                   \* <<>> or <<the string execute_single_task returned>>
    \* main (the orchestrator)
    main_pc,                  \* "none" (no orchestrator) | "session" | "done" | "crashed"
    attempt,                  \* the index of the for loop, 0..2
    main_messages,            \* main's list `messages` while a coach session runs
    summary,                  \* main's `summary`: <<>> or <<string>>
    verdict,                  \* main's `verdict`: <<>> or <<string>>
    sessions,                 \* the calls of execute_single_task main made, in order
    notices,                  \* what main printed about the outcome, in order
    \* the file system under the tools
    file,                     \* the file at FilePath: <<>> (absent) or <<its bytes>>
    output_dir,               \* suffix |-> <<>> or <<payload>>; 0 is final_output.md
    tool_call,                \* <<>> or <<the last call of execute_tool and its outcome>>
    written                   \* the payloads final_output wrote successfully, in order

mainvars == <<main_pc, attempt, main_messages, summary, verdict, sessions, notices>>

toolvars == <<file, output_dir, tool_call, written>>

vars == <<mode, requires_coverage, messages, temperature, error_history,
          disable_tools_next_call, allow_tools, coverage_report_called,
          final_output_called, tool_call_error, tool_results, has_tool_use,
          current_errors, last_message, summary_message, LAST_FINAL_OUTPUT,
          calls, transition, pc, result, mainvars, toolvars>>

-----------------------------------------------------------------------------
(* Bounds and program constants *)

MaxCalls == 4
MaxSessionCalls == 2
MaxVersions == 4
MaxFileLen == 3
MaxSessions == 3

REPEATED_ERROR_THRESHOLD == 2
TOOL_FAILURE_THRESHOLD == 5
BaselineTemperature == 0
ElevatedTemperature == 1

-----------------------------------------------------------------------------
(* Content blocks the provider may return *)

TextBlock(t) == [type |-> "text", text |-> t]
ThinkingBlock == [type |-> "thinking", thinking |-> "plan"]
ToolUse(n, i) == [type |-> "tool_use", name |-> n, input |-> i]

ShellLs == ToolUse("call_shell", << <<"command", "ls">> >>)
ShellCatLog == ToolUse("call_shell", << <<"command", "cat build.log">> >>)
CoverageReport == ToolUse("run_coverage_report", << <<"test_command", "pytest">> >>)
FinalOutput == ToolUse("final_output", << <<"summary", "IMPLEMENTATION_APPROVED">> >>)

StringBlock(s) == [type |-> "string", text |-> s]

\* Block ids are unique per response position: <<call number, index>>.
WithIds(content, n) ==
    [i \in 1..Len(content) |->
        IF content[i].type = "tool_use"
        THEN [type |-> "tool_use", name |-> content[i].name,
              input |-> content[i].input, id |-> <<n, i>>]
        ELSE content[i]]

-----------------------------------------------------------------------------
(* Tools (src/tools.py) *)

tool_map == {"call_shell", "write_file", "str_replace", "final_output"}

Keys(input) == {input[k][1] : k \in 1..Len(input)}
Get(input, key) == (CHOOSE k \in 1..Len(input) : input[k][1] = key)

RequiredParams(name) ==
    CASE name = "call_shell" -> {"command"}
      [] name = "write_file" -> {"path", "content"}
      [] name = "str_replace" -> {"path", "old_str", "new_str"}
      [] name = "final_output" -> {"summary"}
      [] OTHER -> {}

OptionalParams(name) == IF name = "str_replace" THEN {"occurrence"} ELSE {}

\* tool_func(**tool_input) raises TypeError on a missing or unexpected keyword.
BindsParams(name, input) ==
    /\ RequiredParams(name) \subseteq Keys(input)
    /\ Keys(input) \subseteq RequiredParams(name) \cup OptionalParams(name)

\* What the operating system does with one invocation (the tool's environment).
ShellEnv(command) ==
    IF command = "ls"
    THEN {[kind |-> "exit", returncode |-> 0, stdout |-> <<"main.py">>, stderr |-> <<>>],
          [kind |-> "exit", returncode |-> 1, stdout |-> <<>>, stderr |-> <<"ls:", "denied">>]}
    ELSE {[kind |-> "exit", returncode |-> 0, stdout |-> <<"Error", "in", "step", "3">>,
           stderr |-> <<>>]}

NoEnv == [kind |-> "none"]

Env(block) ==
    IF block.type # "tool_use" THEN {NoEnv}
    ELSE IF block.name = "call_shell" /\ BindsParams(block.name, block.input)
         THEN ShellEnv(block.input[Get(block.input, "command")][2])
    ELSE IF block.name = "final_output" /\ BindsParams(block.name, block.input)
         THEN {[kind |-> "written"]}
    ELSE {NoEnv}

call_shell(input, env) ==
    IF env.kind = "exit"
    THEN IF env.returncode = 0 THEN env.stdout
         ELSE <<"Error", "(exit code", "nonzero", "):">> \o env.stderr
    ELSE IF env.kind = "timeout" THEN <<"Error", ": Command timed out after 30 seconds">>
    ELSE <<"Error", "executing command">>

\* The value bound to a parameter, and to an optional one left out.
Arg(input, key) == input[Get(input, key)][2]
ArgOr(input, key, default) == IF key \in Keys(input) THEN Arg(input, key) ELSE default

\* Path.read_text(): text mode with universal newlines, "\r\n" and "\r" are
\* read as "\n".
RECURSIVE read_text(_)
read_text(bytes) ==
    IF Len(bytes) = 0 THEN ""
    ELSE IF Len(bytes) >= 2 /\ SubSeq(bytes, 1, 2) = "\r\n"
    THEN "\n" \o read_text(SubSeq(bytes, 3, Len(bytes)))
    ELSE IF SubSeq(bytes, 1, 1) = "\r"
    THEN "\n" \o read_text(SubSeq(bytes, 2, Len(bytes)))
    ELSE SubSeq(bytes, 1, 1) \o read_text(SubSeq(bytes, 2, Len(bytes)))

\* Path.write_text() on POSIX: "\n" is written as os.linesep, which is "\n".
write_text(text) == text

\* The first index at or after `from` where part starts in text, or 0.
find(text, part, from) ==
    LET starts == {i \in from..(Len(text) - Len(part) + 1) :
                      SubSeq(text, i, i + Len(part) - 1) = part}
    IN  IF starts = {} THEN 0 ELSE CHOOSE i \in starts : \A j \in starts : i <= j

\* `old_str in content`
in(part, text) == find(text, part, 1) # 0

\* str.count: non-overlapping occurrences, scanned left to right; the empty
\* string occurs between all characters and at both ends.
RECURSIVE CountFrom(_, _, _)
CountFrom(text, part, from) ==
    IF find(text, part, from) = 0 THEN 0
    ELSE 1 + CountFrom(text, part, find(text, part, from) + Len(part))

count(text, part) == IF part = "" THEN Len(text) + 1 ELSE CountFrom(text, part, 1)

\* str.split(sep) for a non-empty sep (an empty one raises ValueError).
RECURSIVE split(_, _)
split(text, sep) ==
    LET i == find(text, sep, 1)
    IN  IF i = 0 THEN <<text>>
        ELSE <<SubSeq(text, 1, i - 1)>> \o split(SubSeq(text, i + Len(sep), Len(text)), sep)

RECURSIVE join(_, _)
join(sep, parts) ==
    IF parts = <<>> THEN ""
    ELSE IF Len(parts) = 1 THEN parts[1]
    ELSE parts[1] \o sep \o join(sep, Tail(parts))

\* str.replace(old, new): every non-overlapping occurrence, left to right.
RECURSIVE replace(_, _, _)
replace(text, old, new) ==
    IF old = ""
    THEN IF text = "" THEN new
         ELSE new \o SubSeq(text, 1, 1) \o replace(SubSeq(text, 2, Len(text)), old, new)
    ELSE LET i == find(text, old, 1)
         IN  IF i = 0 THEN text
             ELSE SubSeq(text, 1, i - 1) \o new
                      \o replace(SubSeq(text, i + Len(old), Len(text)), old, new)

\* What a file tool meets: the file at its path, and whether the operating
\* system refuses the access (OSError).
FileEnv(f, refused) == [kind |-> "file", file |-> f, fails |-> refused]

\* write_file: the result and the file it leaves.
write_file_outcome(input, env) ==
    IF env.kind = "file" /\ ~env.fails
    THEN [result |-> <<"Successfully", "wrote", Len(Arg(input, "content")), "characters">>,
          file |-> <<write_text(Arg(input, "content"))>>]
    ELSE [result |-> <<"Error", "writing file:">>,
          file |-> IF env.kind = "file" THEN env.file ELSE <<>>]

write_file(input, env) == write_file_outcome(input, env).result

\* `old_str.join(parts[:occurrence]) + new_str + old_str.join(parts[occurrence:])`
ReplaceOccurrence(content, old_str, new_str, occurrence) ==
    LET parts == split(content, old_str)
    IN  join(old_str, SubSeq(parts, 1, occurrence)) \o new_str
            \o join(old_str, SubSeq(parts, occurrence + 1, Len(parts)))

\* `elif occurrence > 0 and occurrence <= count:`
OccurrenceInRange(occurrence, found) == occurrence > 0 /\ occurrence <= found

\* str_replace: the result and the file it leaves.
str_replace_outcome(input, env) ==
    LET old_str == Arg(input, "old_str")
        new_str == Arg(input, "new_str")
        occurrence == ArgOr(input, "occurrence", -1)
        unchanged == IF env.kind = "file" THEN env.file ELSE <<>>
    IN  IF env.kind # "file" \/ env.fails
        THEN [result |-> <<"Error", "replacing text:">>, file |-> unchanged]
        ELSE IF env.file = <<>>
        THEN [result |-> <<"Error", ": File does not exist">>, file |-> unchanged]
        ELSE LET content == read_text(env.file[1]) IN
             IF ~in(old_str, content)
             THEN [result |-> <<"Error", ": Could not find the specified text">>,
                   file |-> unchanged]
             ELSE IF occurrence = -1
             THEN [result |-> <<"Successfully", "replaced", count(content, old_str)>>,
                   file |-> <<write_text(replace(content, old_str, new_str))>>]
             ELSE IF OccurrenceInRange(occurrence, count(content, old_str))
             THEN IF old_str = ""
                  THEN [result |-> <<"Error", "replacing text:", "empty separator">>,
                        file |-> unchanged]
                  ELSE [result |-> <<"Successfully", "replaced", 1>>,
                        file |-> <<write_text(ReplaceOccurrence(content, old_str,
                                                                new_str, occurrence))>>]
             ELSE [result |-> <<"Error", ": Invalid occurrence", occurrence>>,
                   file |-> unchanged]

str_replace(input, env) == str_replace_outcome(input, env).result

\* What final_output meets: the output directory, and the step at which the
\* operating system refuses ("none", "rename" or "write").
DirEnv(dir, refused) == [kind |-> "dir", dir |-> dir, fails |-> refused]

\* `while True: ... version_num += 1`: the first suffix that is free.
FreeVersion(dir) ==
    CHOOSE n \in 1..(MaxVersions + 1) :
        /\ n > MaxVersions \/ dir[n] = <<>>
        /\ \A k \in 1..(n - 1) : dir[k] # <<>>

\* Mutant: the current file is renamed to suffix 1 without shifting the others.
RotatedInPlace(dir) ==
    [k \in DOMAIN dir |-> IF k = 0 THEN <<>> ELSE IF k = 1 THEN dir[0] ELSE dir[k]]

\* The renames of final_output: suffix i moves to i + 1, highest first, then
\* the unsuffixed file moves to suffix 1.
Rotated(dir) ==
    [k \in DOMAIN dir |->
        IF k = 0 THEN <<>>
        ELSE IF k = 1 THEN dir[0]
        ELSE IF k <= FreeVersion(dir) THEN dir[k - 1]
        ELSE dir[k]]

\* final_output: the result, the directory it leaves and the summary it stored.
final_output_outcome(input, env) ==
    IF env.kind = "written"
    THEN [result |-> <<"Successfully", "saved final output">>, dir |-> <<>>]
    ELSE IF env.kind # "dir"
    THEN [result |-> <<"Error", "saving final output">>, dir |-> <<>>]
    ELSE LET rotated == IF env.dir[0] # <<>> THEN Rotated(env.dir) ELSE env.dir IN
         IF env.fails = "rename" /\ env.dir[0] # <<>>
         THEN [result |-> <<"Error", "saving final output">>, dir |-> env.dir]
         ELSE IF env.fails = "write"
         THEN [result |-> <<"Error", "saving final output">>, dir |-> rotated]
         ELSE [result |-> <<"Successfully", "saved final output">>,
               dir |-> [rotated EXCEPT ![0] = <<write_text(Arg(input, "summary"))>>]]

final_output(input, env) == final_output_outcome(input, env).result

\* Mutant: an unknown tool is reported without the error prefix.
execute_tool_unprefixed(name, input, env) ==
    IF name \notin tool_map
    THEN <<"Unknown tool", name>>
    ELSE IF ~BindsParams(name, input)
    THEN <<"Error", "calling tool", name>>
    ELSE IF name = "call_shell" THEN call_shell(input, env)
    ELSE IF name = "final_output" THEN final_output(input, env)
    ELSE IF name = "write_file" THEN write_file(input, env)
    ELSE str_replace(input, env)

execute_tool(name, input, env) ==
    IF name \notin tool_map
    THEN <<"Error", ": Unknown tool", name>>
    ELSE IF ~BindsParams(name, input)
    THEN <<"Error", "calling tool", name>>
    ELSE IF name = "call_shell" THEN call_shell(input, env)
    ELSE IF name = "final_output" THEN final_output(input, env)
    ELSE IF name = "write_file" THEN write_file(input, env)
    ELSE str_replace(input, env)

\* What tool_func(**tool_input) raises, if anything: the call itself raises
\* TypeError when the keywords do not fit the signature; inside, every tool
\* wraps its body in `try: ... except Exception`, so nothing else gets out.
tool_func_raises(name, input, env) ==
    IF ~BindsParams(name, input) THEN <<"TypeError">> ELSE <<>>

\* Mutant: only OSError is caught around the call.
CatchesOSErrorOnly == {"OSError"}

\* `except TypeError` and `except Exception` around the call.
Catches == {"TypeError", "Exception"}

\* An exception leaves execute_tool.
execute_tool_raises(name, input, env) ==
    /\ name \in tool_map
    /\ tool_func_raises(name, input, env) # <<>>
    /\ tool_func_raises(name, input, env)[1] \notin Catches

\* final_output stores its summary before it touches the file system.
StoresFinalOutput(name, input) ==
    name = "final_output" /\ BindsParams(name, input)

StartsWithError(text) == Len(text) > 0 /\ text[1] = "Error"

\* execute_tool catches every Exception, so no environment of this model raises.
ToolRaises(env) == env.kind = "raise"

-----------------------------------------------------------------------------
(* process_message_content (src/main.py) *)

NoResults ==
    [tool_results |-> <<>>, has_tool_use |-> FALSE, current_errors |-> <<>>,
     coverage_report_called |-> FALSE, final_output_called |-> FALSE]

ToolResult(c, env) ==
    IF ToolRaises(env)
    THEN [type |-> "tool_result", tool_use_id |-> c.id,
          content |-> <<"Error", "executing tool:">>, is_error |-> TRUE]
    ELSE [type |-> "tool_result", tool_use_id |-> c.id,
          content |-> execute_tool(c.name, c.input, env)]

\* Mutant: only an invocation whose execution raised counts as a failure.
IsFailureOnRaise(c, env) == ToolRaises(env)

IsFailure(c, env) ==
    ToolRaises(env) \/ StartsWithError(execute_tool(c.name, c.input, env))

RECURSIVE ProcessFrom(_, _, _, _)
ProcessFrom(content, envs, i, acc) ==
    IF i > Len(content) THEN acc
    ELSE LET c == content[i] IN
         IF c.type = "tool_use"
         THEN ProcessFrom(content, envs, i + 1,
                [tool_results |-> Append(acc.tool_results, ToolResult(c, envs[i])),
                 has_tool_use |-> TRUE,
                 current_errors |->
                     IF IsFailure(c, envs[i])
                     THEN Append(acc.current_errors, <<c.name, c.input>>)
                     ELSE acc.current_errors,
                 coverage_report_called |->
                     acc.coverage_report_called \/ c.name = "run_coverage_report",
                 final_output_called |->
                     acc.final_output_called \/ c.name = "final_output"])
         ELSE ProcessFrom(content, envs, i + 1, acc)

process_message_content(content, envs) == ProcessFrom(content, envs, 1, NoResults)

\* The side effect of the turn's tools on tools.LAST_FINAL_OUTPUT.
RECURSIVE StoreFrom(_, _, _)
StoreFrom(content, i, stored) ==
    IF i > Len(content) THEN stored
    ELSE LET c == content[i] IN
         IF c.type = "tool_use" /\ StoresFinalOutput(c.name, c.input)
         THEN StoreFrom(content, i + 1, <<c.input[Get(c.input, "summary")][2]>>)
         ELSE StoreFrom(content, i + 1, stored)

-----------------------------------------------------------------------------
(* handle_error_temperature_adjustment (src/main.py) *)

AllIdentical(errors) == \A k \in 1..Len(errors) : errors[k] = errors[1]

Recent(history, n) == SubSeq(history, Len(history) - n + 1, Len(history))

\* Mutant: the check uses the signature's default threshold (3), not the caller's.
RepeatedErrorsDefaultThreshold(extended, threshold) ==
    /\ Len(extended) >= 3
    /\ \A k \in (Len(extended) - 2)..Len(extended) : extended[k] = extended[Len(extended)]

\* The last `threshold` failures are the same (tool, parameters) pair.
RepeatedErrors(extended, threshold) ==
    /\ Len(extended) >= threshold
    /\ AllIdentical(Recent(extended, threshold))

\* Mutant: a turn whose tools all succeeded clears the history and keeps the
\* temperature.
handle_error_keeping_temperature(errors, history, tool_use, temp, threshold) ==
    IF ~tool_use /\ temp > 0
    THEN [temperature |-> BaselineTemperature, error_history |-> <<>>]
    ELSE IF errors # <<>>
    THEN [temperature |->
              IF RepeatedErrors(history \o errors, threshold) /\ temp = 0
              THEN ElevatedTemperature ELSE temp,
          error_history |-> history \o errors]
    ELSE IF tool_use /\ temp > 0
    THEN [temperature |-> temp, error_history |-> <<>>]
    ELSE [temperature |-> temp, error_history |-> history]

handle_error_temperature_adjustment(errors, history, tool_use, temp, threshold) ==
    LET extended == history \o errors
        first ==
            IF errors # <<>>
            THEN [temperature |->
                      IF RepeatedErrors(extended, threshold) /\ temp = 0
                      THEN ElevatedTemperature ELSE temp,
                  error_history |-> extended]
            ELSE IF tool_use /\ temp > 0
            THEN [temperature |-> BaselineTemperature, error_history |-> <<>>]
            ELSE [temperature |-> temp, error_history |-> history]
    IN  IF ~tool_use /\ temp > 0
        THEN [temperature |-> BaselineTemperature, error_history |-> <<>>]
        ELSE first

\* The hard threshold of execute_single_task: five identical failures.
LockoutCondition(history) ==
    /\ Len(history) >= TOOL_FAILURE_THRESHOLD
    /\ AllIdentical(Recent(history, TOOL_FAILURE_THRESHOLD))

-----------------------------------------------------------------------------
(* The provider: what send_message may return *)

ToolContents ==
    { <<ShellLs>>, <<ShellCatLog>>, <<CoverageReport>>, <<FinalOutput>>,
      <<ShellCatLog, ShellCatLog, ShellCatLog>>,
      <<FinalOutput, ShellCatLog, ShellCatLog>> }

ToolResponses ==
    {[content |-> c, stop_reason |-> "tool_use"] : c \in ToolContents}
    \cup {[content |-> <<TextBlock("checking"), ShellLs, ShellCatLog>>,
           stop_reason |-> "end_turn"]}

TextResponses ==
    {[content |-> c, stop_reason |-> "end_turn"] : c \in {<<>>, <<TextBlock("done")>>}}
    \cup {[content |-> <<TextBlock("partial")>>, stop_reason |-> r] :
            r \in {"max_tokens", "model_context_window_exceeded", "stop_sequence", "refusal"}}

\* tool_choice "none" and no tool catalog: the provider returns no tool_use block.
Responses(tools_enabled) ==
    IF tools_enabled THEN ToolResponses \cup TextResponses ELSE TextResponses

SummaryResponses ==
    { <<>>, <<TextBlock("")>>, <<TextBlock("summary")>>,
      <<ThinkingBlock, TextBlock("summary")>>,
      <<TextBlock("summary"), TextBlock("appendix")>> }

\* The environments the tools of a response may meet, one per block.
RECURSIVE EnvsFrom(_, _)
EnvsFrom(content, i) ==
    IF i > Len(content) THEN {<<>>}
    ELSE {<<e>> \o rest : e \in Env(content[i]), rest \in EnvsFrom(content, i + 1)}

EnvsFor(content) == EnvsFrom(content, 1)

-----------------------------------------------------------------------------
(* Messages the driver synthesizes *)

REQUIREMENTS == "requirements"
Incomplete == "Task execution incomplete"

InitialMessages(m) ==
    << [role |-> "user",
        content |-> <<TextBlock(IF m = "coach" THEN "coach prompt + requirements + summary"
                                ELSE REQUIREMENTS)>>] >>

TOOL_EXAMPLES(tool_name) ==
    IF tool_name \in tool_map THEN <<"examples of", tool_name>> ELSE <<"No examples available">>

error_message(tool_name, tool_params) ==
    [role |-> "user",
     content |-> <<[type |-> "string", text |-> "repeated identical failures",
                    tool |-> tool_name, params |-> tool_params,
                    examples |-> TOOL_EXAMPLES(tool_name)]>>]

reminder_message ==
    [role |-> "user", content |-> <<StringBlock("You have not called the run_coverage_report tool yet")>>]

summary_request ==
    [role |-> "user", content |-> <<StringBlock("PROMPTS_SUMMARY_REPORT")>>]

\* Mutant: the new message is put in front of the list.
update_messages_front(msgs, new_message) == <<new_message>> \o msgs

\* update_messages: append (the log written beside it holds no state of the loop).
update_messages(msgs, new_message) == Append(msgs, new_message)

tool_results_message(results) == [role |-> "user", content |-> results]

Request(kind, temp, tools_enabled) ==
    [kind |-> kind, temperature |-> temp, allow_tools |-> tools_enabled,
     messages |-> Len(messages)]

-----------------------------------------------------------------------------
(* execute_single_task (src/main.py) *)

\* execute_single_task called on its own: main is not running.
NoOrchestrator ==
    /\ main_pc = "none"
    /\ attempt = 0
    /\ main_messages = <<>>
    /\ summary = <<>>
    /\ verdict = <<>>
    /\ sessions = <<>>
    /\ notices = <<>>

\* The files the model tracks are untouched: no file, an empty output directory.
NoToolCalls ==
    /\ file = <<>>
    /\ output_dir = [k \in 0..MaxVersions |-> <<>>]
    /\ tool_call = <<>>
    /\ written = <<>>

Init ==
    /\ mode \in {"player", "coach"}
    /\ requires_coverage \in BOOLEAN
    /\ messages = InitialMessages(mode)
    /\ temperature = BaselineTemperature
    /\ error_history = <<>>
    /\ disable_tools_next_call = FALSE
    /\ allow_tools = TRUE
    /\ coverage_report_called = FALSE
    /\ final_output_called = FALSE
    /\ tool_call_error = FALSE
    /\ tool_results = <<>>
    /\ has_tool_use = FALSE
    /\ current_errors = <<>>
    /\ last_message = <<>>
    /\ summary_message = <<>>
    /\ LAST_FINAL_OUTPUT = <<>>
    /\ calls = <<>>
    /\ transition = "start"
    /\ pc = "send"
    /\ result = <<>>
    /\ NoOrchestrator
    /\ NoToolCalls

\* should_call_coverage_report(message_text): a function of the task text alone.
should_call_coverage_report == requires_coverage

\* Mutant: the results go back to the model only when no invocation failed.
ContinueOnlyOnSuccess(tool_use, results) ==
    tool_use /\ results # <<>> /\ \A k \in 1..Len(results) : ~StartsWithError(results[k].content)

\* `if has_tool_use and tool_results:` -- the CONTINUE transition.
ContinueWithResults(tool_use, results) == tool_use /\ results # <<>>

\* Mutant: the reminder is capped at one in a row.
NeedsReminderOnce(cov_called) ==
    ~cov_called /\ should_call_coverage_report /\ transition # "remind"

\* `if not coverage_report_called and should_call_coverage_report(message_text):`
NeedsReminder(cov_called) == ~cov_called /\ should_call_coverage_report

\* Mutant: only the two budget stop reasons break; any other completes.
StopsOnBudgetOnly(stop_reason) ==
    stop_reason \in {"max_tokens", "model_context_window_exceeded"}

\* The stop reasons that end the session in the stop-reason branch.
Stops(stop_reason) == stop_reason # "end_turn"

\* The value the coach branch returns on end_turn.
CoachResult(fin_called, stored) ==
    IF ~fin_called THEN "ERROR: Coach mode requires calling final_output tool"
    ELSE IF stored # <<>> /\ stored[1] # "" THEN stored[1]
    ELSE "No final output provided"

\* Mutant: the latch is read but not reset.
LatchKept(latch) == latch

\* `disable_tools_next_call = False  # reset latch for next loop`
LatchAfterCall(latch) == FALSE

\* Mutant: a missing response is retried instead of ending the session.
SendNoneRetried ==
    /\ pc = "send"
    /\ Len(calls) < MaxCalls
    /\ calls' = Append(calls, Request("loop", temperature, ~disable_tools_next_call))
    /\ allow_tools' = ~disable_tools_next_call
    /\ disable_tools_next_call' = FALSE
    /\ tool_call_error' = FALSE
    /\ last_message' = <<>>
    /\ transition' = "none"
    /\ UNCHANGED <<mode, requires_coverage, messages, temperature, error_history,
                   coverage_report_called, final_output_called, tool_results,
                   has_tool_use, current_errors, summary_message, LAST_FINAL_OUTPUT,
                   pc, result, mainvars, toolvars>>

\* send_message returned None: the loop breaks before anything is appended.
SendNone ==
    /\ pc = "send"
    /\ Len(calls) < MaxCalls
    /\ calls' = Append(calls, Request("loop", temperature, ~disable_tools_next_call))
    /\ allow_tools' = ~disable_tools_next_call
    /\ disable_tools_next_call' = LatchAfterCall(disable_tools_next_call)
    /\ tool_call_error' = FALSE
    /\ last_message' = <<>>
    /\ transition' = "none"
    /\ pc' = "returned"
    /\ result' = <<Incomplete>>
    /\ UNCHANGED <<mode, requires_coverage, messages, temperature, error_history,
                   coverage_report_called, final_output_called, tool_results,
                   has_tool_use, current_errors, summary_message, LAST_FINAL_OUTPUT,
                   mainvars, toolvars>>

\* One iteration of the while loop on a response r whose tools met environments envs.
Iteration(r, envs) ==
    \* each value below is computed once and bound
    \E tools_enabled \in {~disable_tools_next_call} :
    \E content \in {WithIds(r.content, Len(calls) + 1)} :
    \E assistant \in {[role |-> "assistant", content |-> content]} :
    \E p \in {process_message_content(content, envs)} :
    \E adj \in {handle_error_temperature_adjustment(
                   p.current_errors, error_history, p.has_tool_use, temperature,
                   REPEATED_ERROR_THRESHOLD)} :
    \E cov \in {coverage_report_called \/ p.coverage_report_called} :
    \E fin \in {final_output_called \/ p.final_output_called} :
    \E stored \in {StoreFrom(content, 1, LAST_FINAL_OUTPUT)} :
    /\ calls' = Append(calls, Request("loop", temperature, tools_enabled))
    /\ allow_tools' = tools_enabled
    /\ last_message' = <<[content |-> content, stop_reason |-> r.stop_reason]>>
    /\ tool_call_error' = (p.current_errors # <<>>)
    /\ tool_results' = p.tool_results
    /\ has_tool_use' = p.has_tool_use
    /\ current_errors' = p.current_errors
    /\ LAST_FINAL_OUTPUT' = stored
    /\ UNCHANGED <<mode, requires_coverage, summary_message, mainvars, toolvars>>
    /\ IF LockoutCondition(adj.error_history)
       THEN /\ disable_tools_next_call' = TRUE
            /\ error_history' = <<>>
            /\ temperature' = BaselineTemperature
            /\ messages' = update_messages(update_messages(messages, assistant),
                                  error_message(Recent(adj.error_history, TOOL_FAILURE_THRESHOLD)[1][1],
                                                Recent(adj.error_history, TOOL_FAILURE_THRESHOLD)[1][2]))
            /\ transition' = "lockout"
            /\ UNCHANGED <<coverage_report_called, final_output_called, pc, result>>
       ELSE
            /\ disable_tools_next_call' = LatchAfterCall(disable_tools_next_call)
            /\ error_history' = adj.error_history
            /\ temperature' = adj.temperature
            /\ coverage_report_called' = cov
            /\ final_output_called' = fin
            /\ IF ContinueWithResults(p.has_tool_use, p.tool_results)
               THEN /\ messages' = update_messages(update_messages(messages, assistant),
                                                   tool_results_message(p.tool_results))
                    /\ transition' = "continue"
                    /\ UNCHANGED <<pc, result>>
               ELSE IF p.current_errors # <<>>
               THEN /\ messages' = update_messages(messages, assistant)
                    /\ transition' = "retry"
                    /\ UNCHANGED <<pc, result>>
               ELSE IF Stops(r.stop_reason)
               THEN /\ messages' = update_messages(messages, assistant)
                    /\ transition' = "stop"
                    /\ pc' = "returned"
                    /\ result' = <<Incomplete>>
               ELSE IF NeedsReminder(cov)
               THEN /\ messages' = update_messages(update_messages(messages, assistant), reminder_message)
                    /\ transition' = "remind"
                    /\ UNCHANGED <<pc, result>>
               ELSE IF mode = "player"
               THEN /\ messages' = update_messages(messages, assistant)
                    /\ transition' = "end_turn"
                    /\ pc' = "summary"
                    /\ UNCHANGED result
               ELSE /\ messages' = update_messages(messages, assistant)
                    /\ transition' = "end_turn"
                    /\ pc' = "returned"
                    /\ result' = <<IF mode = "coach" THEN CoachResult(fin, stored)
                                   ELSE "Invalid mode specified">>

Turn ==
    /\ pc = "send"
    /\ Len(calls) < MaxCalls
    /\ \E r \in Responses(~disable_tools_next_call) :
         \E envs \in EnvsFor(r.content) : Iteration(r, envs)

-----------------------------------------------------------------------------
(* get_code_summary_report (src/main.py) *)

\* Mutant: the loop over the blocks keeps the last text block, not the first.
LastText(content) ==
    IF \E i \in 1..Len(content) : content[i].type = "text"
    THEN <<content[CHOOSE i \in 1..Len(content) :
                /\ content[i].type = "text"
                /\ \A j \in (i + 1)..Len(content) : content[j].type # "text"].text>>
    ELSE <<>>

\* `for c in message.content: if c.type == "text": return c.text`, else None
FirstText(content) ==
    IF \E i \in 1..Len(content) : content[i].type = "text"
    THEN <<content[CHOOSE i \in 1..Len(content) :
                /\ content[i].type = "text"
                /\ \A j \in 1..(i - 1) : content[j].type # "text"].text>>
    ELSE <<>>

\* `return code_summary if code_summary else "Task completed"`
SummaryResult(code_summary) ==
    IF code_summary # <<>> /\ code_summary[1] # "" THEN code_summary[1] ELSE "Task completed"

SummaryFrame ==
    UNCHANGED <<mode, requires_coverage, temperature, error_history,
                disable_tools_next_call, allow_tools, coverage_report_called,
                final_output_called, tool_call_error, tool_results, has_tool_use,
                current_errors, last_message, LAST_FINAL_OUTPUT, transition,
                mainvars, toolvars>>

GetCodeSummaryReport ==
    /\ pc = "summary"
    /\ messages' = update_messages(messages, summary_request)
    /\ calls' = Append(calls, [kind |-> "summary", temperature |-> BaselineTemperature,
                               allow_tools |-> FALSE, messages |-> Len(messages) + 1])
    /\ \E content \in SummaryResponses :
         /\ summary_message' = <<content>>
         /\ pc' = "returned"
         /\ result' = <<SummaryResult(FirstText(content))>>
    /\ SummaryFrame

\* send_message returned None to get_code_summary_report: message.content raises.
GetCodeSummaryReportNone ==
    /\ pc = "summary"
    /\ messages' = update_messages(messages, summary_request)
    /\ calls' = Append(calls, [kind |-> "summary", temperature |-> BaselineTemperature,
                               allow_tools |-> FALSE, messages |-> Len(messages) + 1])
    /\ pc' = "raised"
    /\ UNCHANGED <<result, summary_message>>
    /\ SummaryFrame

Next == SendNone \/ Turn \/ GetCodeSummaryReport \/ GetCodeSummaryReportNone

Spec == Init /\ [][Next]_vars

-----------------------------------------------------------------------------
(* main: the player/coach loop (src/main.py) *)

MaxAttempts == 3

SYSTEM_PROMPT == "PROMPTS_SYSTEM_PROMPT + coverage note"
PROMPTS_COACH_PROMPT == "PROMPTS_COACH_PROMPT"
APPROVED == "IMPLEMENTATION_APPROVED"

ApprovedNotice == "## Implementation approved by coach!"
GivingUpNotice == "## Giving up after 3 attempts!!"
NoSummaryNotice == "# WARNING: GOT NO SUMMARY FROM PLAYER :("
NoVerdictNotice == "# WARNING: GOT NO VERDICT FROM COACH :("

\* str.strip(): the characters Python's str.isspace accepts, in ASCII.
Whitespace == {" ", "\t", "\n", "\r", "\f"}

RECURSIVE lstrip(_)
lstrip(text) ==
    IF Len(text) > 0 /\ SubSeq(text, 1, 1) \in Whitespace
    THEN lstrip(SubSeq(text, 2, Len(text)))
    ELSE text

RECURSIVE rstrip(_)
rstrip(text) ==
    IF Len(text) > 0 /\ SubSeq(text, Len(text), Len(text)) \in Whitespace
    THEN rstrip(SubSeq(text, 1, Len(text) - 1))
    ELSE text

\* Mutant: the verdict is compared as returned.
NoStrip(text) == text

strip(text) == rstrip(lstrip(text))

\* `if verdict.strip() == "IMPLEMENTATION_APPROVED":`
Approves(v) == strip(v) = APPROVED

\* What the coach of an orchestrated run may hand to final_output.
Verdicts ==
    {APPROVED, " IMPLEMENTATION_APPROVED\n", "IMPLEMENTATION_APPROVED but untested"}

FinalOutputWith(v) == ToolUse("final_output", << <<"summary", v>> >>)

\* What the provider may return in a session of an orchestrated run.
OrchestratedResponses(m) ==
    {[content |-> <<TextBlock("done")>>, stop_reason |-> "end_turn"]}
    \cup (IF m = "coach"
          THEN {[content |-> <<FinalOutputWith(v)>>, stop_reason |-> "tool_use"] :
                    v \in Verdicts}
          ELSE {})

\* Mutant: the coach is handed the requirements without the player's summary.
CoachMessagesWithoutSummary(player_summary) ==
    << [role |-> "user",
        content |-> <<TextBlock(PROMPTS_COACH_PROMPT \o "\n\n" \o REQUIREMENTS)>>] >>

\* `coach_messages = [...]`: a new list on every iteration of the for loop.
CoachMessages(player_summary) ==
    << [role |-> "user",
        content |-> <<TextBlock(PROMPTS_COACH_PROMPT \o "\n\n" \o REQUIREMENTS
                                \o "\n\n" \o player_summary)>>] >>

FeedbackMessage(v) ==
    [role |-> "user",
     content |-> <<TextBlock("Coach feedback: Please fix this. \n\n" \o v)>>]

\* Mutant: the player is re-run on a new conversation that holds the feedback.
FreshPlayerMessages(msgs, v) ==
    update_messages(InitialMessages("player"), FeedbackMessage(v))

\* `update_messages(messages, {... verdict}, "player")` on main's list `messages`.
PlayerMessagesWithFeedback(msgs, v) == update_messages(msgs, FeedbackMessage(v))

\* One call of execute_single_task as main makes it: the list object it is
\* handed (main's `messages`, or the coach_messages of an iteration) and what
\* that list holds at the call.
SessionEntry(m, list, msgs) ==
    [mode |-> m, system_prompt |-> SYSTEM_PROMPT, conversation |-> list,
     messages |-> msgs]

\* Mutant: the temperature, the error history, the latch and the flags are
\* kept from the session before.
StartSessionKeepingState(m, msgs) ==
    /\ mode' = m
    /\ messages' = msgs
    /\ tool_call_error' = FALSE
    /\ tool_results' = <<>>
    /\ has_tool_use' = FALSE
    /\ current_errors' = <<>>
    /\ last_message' = <<>>
    /\ summary_message' = <<>>
    /\ calls' = <<>>
    /\ transition' = "start"
    /\ pc' = "send"
    /\ result' = <<>>
    /\ UNCHANGED <<requires_coverage, LAST_FINAL_OUTPUT, temperature, error_history,
                   disable_tools_next_call, allow_tools, coverage_report_called,
                   final_output_called>>

\* execute_single_task lines 77-91: the locals of a new session.
StartSession(m, msgs) ==
    /\ mode' = m
    /\ messages' = msgs
    /\ temperature' = BaselineTemperature
    /\ error_history' = <<>>
    /\ disable_tools_next_call' = FALSE
    /\ allow_tools' = TRUE
    /\ coverage_report_called' = FALSE
    /\ final_output_called' = FALSE
    /\ tool_call_error' = FALSE
    /\ tool_results' = <<>>
    /\ has_tool_use' = FALSE
    /\ current_errors' = <<>>
    /\ last_message' = <<>>
    /\ summary_message' = <<>>
    /\ calls' = <<>>
    /\ transition' = "start"
    /\ pc' = "send"
    /\ result' = <<>>
    /\ UNCHANGED <<requires_coverage, LAST_FINAL_OUTPUT>>

SessionFrame ==
    UNCHANGED <<mode, requires_coverage, messages, temperature, error_history,
                disable_tools_next_call, allow_tools, coverage_report_called,
                final_output_called, tool_call_error, tool_results, has_tool_use,
                current_errors, last_message, summary_message, LAST_FINAL_OUTPUT,
                calls, transition, pc, result>>

\* main up to its first call of execute_single_task.
MainInit ==
    /\ mode = "player"
    /\ requires_coverage \in BOOLEAN
    /\ messages = InitialMessages("player")
    /\ temperature = BaselineTemperature
    /\ error_history = <<>>
    /\ disable_tools_next_call = FALSE
    /\ allow_tools = TRUE
    /\ coverage_report_called = FALSE
    /\ final_output_called = FALSE
    /\ tool_call_error = FALSE
    /\ tool_results = <<>>
    /\ has_tool_use = FALSE
    /\ current_errors = <<>>
    /\ last_message = <<>>
    /\ summary_message = <<>>
    /\ LAST_FINAL_OUTPUT = <<>>
    /\ calls = <<>>
    /\ transition = "start"
    /\ pc = "send"
    /\ result = <<>>
    /\ main_pc = "session"
    /\ attempt = 0
    /\ main_messages = <<>>
    /\ summary = <<>>
    /\ verdict = <<>>
    /\ sessions = <<SessionEntry("player", <<"messages", 0>>, InitialMessages("player"))>>
    /\ notices = <<>>
    /\ NoToolCalls

\* One loop iteration of a session of the orchestrated run.
OrchestratedTurn ==
    /\ main_pc = "session"
    /\ pc = "send"
    /\ Len(calls) < MaxSessionCalls
    /\ \E r \in OrchestratedResponses(mode) :
         \E envs \in EnvsFor(r.content) : Iteration(r, envs)

\* A player session returned: `summary = execute_single_task(...)`, then the
\* head of the for loop: the next iteration starts the coach, or the range is
\* exhausted and main gives up.
AfterPlayer ==
    /\ main_pc = "session"
    /\ pc = "returned"
    /\ mode = "player"
    /\ summary' = result
    /\ verdict' = verdict
    /\ UNCHANGED toolvars
    /\ IF attempt >= MaxAttempts
       THEN /\ notices' = Append(notices, GivingUpNotice)
            /\ main_pc' = "done"
            /\ UNCHANGED sessions
            /\ main_messages' = messages
            /\ UNCHANGED attempt
            /\ SessionFrame
       ELSE IF result = <<>>
       THEN /\ notices' = notices \o <<NoSummaryNotice, GivingUpNotice>>
            /\ main_pc' = "done"
            /\ UNCHANGED sessions
            /\ main_messages' = messages
            /\ attempt' = attempt + 1
            /\ SessionFrame
       ELSE /\ attempt' = attempt + 1
            /\ main_messages' = messages
            /\ sessions' = Append(sessions,
                                  SessionEntry("coach", <<"coach_messages", attempt + 1>>,
                                               CoachMessages(result[1])))
            /\ StartSession("coach", CoachMessages(result[1]))
            /\ UNCHANGED <<main_pc, notices>>

\* A coach session returned: `verdict = execute_single_task(...)`, then the
\* approval test, and on a rejection the player is run again with the feedback.
AfterCoach ==
    /\ main_pc = "session"
    /\ pc = "returned"
    /\ mode = "coach"
    /\ verdict' = result
    /\ UNCHANGED <<summary, attempt, toolvars>>
    /\ IF result = <<>>
       THEN /\ notices' = notices \o <<NoVerdictNotice, GivingUpNotice>>
            /\ main_pc' = "done"
            /\ UNCHANGED sessions
            /\ UNCHANGED main_messages
            /\ SessionFrame
       ELSE IF Approves(result[1])
       THEN /\ notices' = Append(notices, ApprovedNotice)
            /\ main_pc' = "done"
            /\ UNCHANGED sessions
            /\ UNCHANGED main_messages
            /\ SessionFrame
       ELSE /\ main_messages' = PlayerMessagesWithFeedback(main_messages, result[1])
            /\ sessions' = Append(sessions,
                                  SessionEntry("player", <<"messages", 0>>,
                                               PlayerMessagesWithFeedback(main_messages, result[1])))
            /\ StartSession("player", PlayerMessagesWithFeedback(main_messages, result[1]))
            /\ UNCHANGED <<main_pc, notices>>

\* get_code_summary_report raised inside a player session: nothing in
\* execute_single_task or main catches it.
MainCrash ==
    /\ main_pc = "session"
    /\ pc = "raised"
    /\ main_pc' = "crashed"
    /\ UNCHANGED sessions
    /\ UNCHANGED <<attempt, main_messages, summary, verdict, notices, toolvars>>
    /\ SessionFrame

MainNext ==
    \/ SendNone
    \/ OrchestratedTurn
    \/ GetCodeSummaryReport
    \/ GetCodeSummaryReportNone
    \/ AfterPlayer
    \/ AfterCoach
    \/ MainCrash

MainSpec == MainInit /\ [][MainNext]_vars

\* The orchestrated run with a provider whose sessions also fail: final_output
\* invoked by either role with its parameter, and without it (a failing
\* invocation) twice and five times in one turn (escalation, lockout).
FinalOutputBare == ToolUse("final_output", <<>>)

SessionContents ==
    { <<FinalOutput>>,
      <<FinalOutputBare, FinalOutputBare>>,
      <<FinalOutputBare, FinalOutputBare, FinalOutputBare, FinalOutputBare, FinalOutputBare>> }

SessionResponses(tools_enabled) ==
    {[content |-> <<TextBlock("done")>>, stop_reason |-> "end_turn"]}
    \cup (IF tools_enabled
          THEN {[content |-> c, stop_reason |-> "tool_use"] : c \in SessionContents}
          ELSE {})

SessionTurn ==
    /\ main_pc = "session"
    /\ pc = "send"
    /\ Len(calls) < MaxSessionCalls
    /\ \E r \in SessionResponses(~disable_tools_next_call) :
         \E envs \in EnvsFor(r.content) : Iteration(r, envs)

\* main's steps between sessions, for runs of at most MaxSessions sessions.
NextCoach == AfterPlayer /\ Len(sessions') <= MaxSessions

NextPlayer == AfterCoach /\ Len(sessions') <= MaxSessions

SessionsNext ==
    \/ SendNone
    \/ SessionTurn
    \/ GetCodeSummaryReport
    \/ GetCodeSummaryReportNone
    \/ NextCoach
    \/ NextPlayer
    \/ MainCrash

SessionsSpec == MainInit /\ [][SessionsNext]_vars

-----------------------------------------------------------------------------
(* The tools called through execute_tool, on the files they act on (src/tools.py) *)

FilePath == "notes.txt"

\* The session variables while the tools are exercised on their own.
ToolFrame ==
    UNCHANGED <<mode, requires_coverage, messages, temperature, error_history,
                disable_tools_next_call, allow_tools, coverage_report_called,
                final_output_called, tool_call_error, tool_results, has_tool_use,
                current_errors, last_message, summary_message, calls, transition,
                pc, result, mainvars>>

ToolSession ==
    /\ mode = "coach"
    /\ requires_coverage = FALSE
    /\ messages = InitialMessages("coach")
    /\ temperature = BaselineTemperature
    /\ error_history = <<>>
    /\ disable_tools_next_call = FALSE
    /\ allow_tools = TRUE
    /\ coverage_report_called = FALSE
    /\ final_output_called = FALSE
    /\ tool_call_error = FALSE
    /\ tool_results = <<>>
    /\ has_tool_use = FALSE
    /\ current_errors = <<>>
    /\ last_message = <<>>
    /\ summary_message = <<>>
    /\ LAST_FINAL_OUTPUT = <<>>
    /\ calls = <<>>
    /\ transition = "start"
    /\ pc = "send"
    /\ result = <<>>
    /\ NoOrchestrator

ToolInit == ToolSession /\ NoToolCalls

\* What the operating system may do with a call of the tool, given the files.
ToolEnvs(name, input) ==
    IF name \notin tool_map \/ ~BindsParams(name, input) THEN {NoEnv}
    ELSE IF name = "call_shell"
    THEN ShellEnv(Arg(input, "command")) \cup {[kind |-> "timeout"], [kind |-> "oserror"]}
    ELSE IF name = "final_output"
    THEN {DirEnv(output_dir, f) : f \in {"none", "rename", "write"}}
    ELSE {FileEnv(file, refused) : refused \in BOOLEAN}

\* One call execute_tool(name, input) and what it leaves behind.
ExecuteTool(name, input, env) ==
    \* the text execute_tool returns is computed once and bound
    \E text \in {execute_tool(name, input, env)} :
    /\ tool_call' = <<[name |-> name, input |-> input, env |-> env,
                       raised |-> execute_tool_raises(name, input, env),
                       result |-> text]>>
    /\ file' = IF name \in {"write_file", "str_replace"} /\ BindsParams(name, input)
               THEN IF name = "write_file" THEN write_file_outcome(input, env).file
                    ELSE str_replace_outcome(input, env).file
               ELSE file
    /\ output_dir' = IF name = "final_output" /\ BindsParams(name, input)
                     THEN final_output_outcome(input, env).dir
                     ELSE output_dir
    /\ LAST_FINAL_OUTPUT' = IF StoresFinalOutput(name, input)
                            THEN <<Arg(input, "summary")>>
                            ELSE LAST_FINAL_OUTPUT
    /\ written' = IF name = "final_output" /\ BindsParams(name, input)
                  THEN Append(written, [summary |-> Arg(input, "summary"),
                                        saved |-> ~StartsWithError(text)])
                  ELSE written
    /\ ToolFrame

\* The calls of the executor's contract: every registered tool, a tool that is
\* not registered, with all, too few and too many parameters.
WellFormedInputs ==
    [call_shell |-> {<< <<"command", "ls">> >>, << <<"command", "cat build.log">> >>},
     write_file |-> {<< <<"path", FilePath>>, <<"content", "ab">> >>},
     str_replace |-> {<< <<"path", FilePath>>, <<"old_str", "a">>, <<"new_str", "c">> >>,
                      << <<"path", FilePath>>, <<"old_str", "a">>, <<"new_str", "c">>,
                         <<"occurrence", 2>> >>},
     final_output |-> {<< <<"summary", APPROVED>> >>},
     run_coverage_report |-> {<< <<"test_command", "pytest">> >>}]

ToolInputs(name) ==
    WellFormedInputs[name]
    \cup {<<>>}
    \cup {input \o << <<"verbose", TRUE>> >> : input \in WellFormedInputs[name]}

ExecuteAnyTool ==
    /\ output_dir[MaxVersions] = <<>>
    /\ Len(written) < MaxVersions
    /\ \E name \in DOMAIN WellFormedInputs : \E input \in ToolInputs(name) :
         \E env \in ToolEnvs(name, input) : ExecuteTool(name, input, env)

ToolSpec == ToolInit /\ [][ExecuteAnyTool]_vars

\* final_output called again and again.
Payloads == {"v1", "v2"}

ExecuteFinalOutput ==
    /\ output_dir[MaxVersions] = <<>>
    /\ Len(written) < MaxVersions
    /\ \E payload \in Payloads :
         \E env \in ToolEnvs("final_output", << <<"summary", payload>> >>) :
            ExecuteTool("final_output", << <<"summary", payload>> >>, env)

\* write_file on the file the output directory does not hold.
ExecuteWriteFile ==
    /\ \E content \in {"ab", "ba"} :
         \E env \in ToolEnvs("write_file", << <<"path", FilePath>>, <<"content", content>> >>) :
            ExecuteTool("write_file", << <<"path", FilePath>>, <<"content", content>> >>, env)

OutputNext == ExecuteFinalOutput \/ ExecuteWriteFile

OutputSpec == ToolInit /\ [][OutputNext]_vars

\* str_replace on a file that may hold anything.
RECURSIVE Strings(_, _)
Strings(alphabet, n) ==
    IF n = 0 THEN {""}
    ELSE Strings(alphabet, n - 1)
         \cup {text \o c : text \in Strings(alphabet, n - 1), c \in alphabet}

FileBytes == Strings({"a", "b", "\r"}, MaxFileLen)

ReplaceInit ==
    /\ ToolSession
    /\ file \in {<<>>} \cup {<<bytes>> : bytes \in FileBytes}
    /\ output_dir = [k \in 0..MaxVersions |-> <<>>]
    /\ tool_call = <<>>
    /\ written = <<>>

StrReplaceInputs ==
    {<< <<"path", FilePath>>, <<"old_str", old>>, <<"new_str", new>> >> \o occurrence :
        old \in {"", "a", "aa", "\n"},
        new \in {"", "ca"},
        occurrence \in {<<>>} \cup {<< <<"occurrence", k>> >> : k \in {-1, 0, 1, 2, 3}}}

ExecuteStrReplace ==
    \E input \in StrReplaceInputs : \E env \in ToolEnvs("str_replace", input) :
        /\ ExecuteTool("str_replace", input, env)
        /\ file' # <<>> => Len(file'[1]) <= MaxFileLen

ReplaceSpec == ReplaceInit /\ [][ExecuteStrReplace]_vars

-----------------------------------------------------------------------------
(* Properties *)

Last(seq) == seq[Len(seq)]

\* This step is one loop iteration that processed a response of the provider.
TurnStep == pc = "send" /\ calls' # calls /\ last_message' # <<>>

\* The error history as extended by the failures of the turn this step processed.
RunAfterStep == error_history \o current_errors'

\* This step processed a failing turn that continues (or starts) a run of
\* failures of one (tool, parameters) pair begun on an empty error history.
IdenticalFailureStep ==
    TurnStep /\ current_errors' # <<>> /\ AllIdentical(RunAfterStep)

\* C1 as stated: in a run of identical failures begun at temperature 0.0 on an
\* empty history, from the 2nd failure on every later LLM call is made at 1.0
\* for as long as the identical failures continue.
C1_StaysElevated ==
    [][ (IdenticalFailureStep /\ Len(RunAfterStep) >= REPEATED_ERROR_THRESHOLD)
            => temperature' = ElevatedTemperature ]_vars

\* C1 amended: the temperature stays 0.0 before the 2nd failure of the run, is
\* raised to 1.0 by the failure that brings the run to 2 and only by it, is 1.0
\* at every later call while the run holds fewer than 5 failures, and the
\* failure that brings the run to 5 triggers the lockout, which resets it to 0.0.
C1_ElevatedUntilLockout ==
    [][ IdenticalFailureStep =>
          /\ Len(RunAfterStep) < REPEATED_ERROR_THRESHOLD
                => temperature' = BaselineTemperature
          /\ (/\ Len(RunAfterStep) >= REPEATED_ERROR_THRESHOLD
              /\ Len(RunAfterStep) < TOOL_FAILURE_THRESHOLD)
                => /\ temperature' = ElevatedTemperature
                   /\ transition' = "continue"
                   /\ (temperature = BaselineTemperature
                          <=> Len(error_history) < REPEATED_ERROR_THRESHOLD)
          /\ Len(RunAfterStep) >= TOOL_FAILURE_THRESHOLD
                => /\ temperature' = BaselineTemperature
                   /\ transition' = "lockout" ]_vars

\* C1 witness: three turns failed one after another with the same pair; the
\* first two calls went out at 0.0, the third at 1.0 and the next one will too.
C1_Witness ==
    /\ pc = "send"
    /\ Len(calls) = 3
    /\ calls[1].temperature = BaselineTemperature
    /\ calls[2].temperature = BaselineTemperature
    /\ calls[3].temperature = ElevatedTemperature
    /\ temperature = ElevatedTemperature
    /\ Len(error_history) = 3
    /\ AllIdentical(error_history)

\* C2 as stated: after a turn that invoked at least one tool and in which no
\* invocation failed, the error history is empty and the temperature is 0.0.
C2_SuccessClears ==
    (pc = "send" /\ transition = "continue" /\ has_tool_use /\ current_errors = <<>>)
        => (error_history = <<>> /\ temperature = BaselineTemperature)

\* The tool invocations of a response, in segment order.
Invocations(content) == SelectSeq(content, LAMBDA c : c.type = "tool_use")

\* C3 as stated: the lockout appends a user-role corrective message naming the
\* failing tool and its parameters, clears the error history, resets the
\* temperature and latches the tools off for the very next call; the call after
\* the tools-disabled one has tools enabled and starts from an empty history.
C3_LockoutThenReenabled ==
    /\ transition = "lockout" =>
          /\ Last(messages) = error_message(Last(current_errors)[1], Last(current_errors)[2])
          /\ Last(messages).role = "user"
          /\ error_history = <<>>
          /\ temperature = BaselineTemperature
          /\ disable_tools_next_call
    /\ \A i \in 1..Len(calls) :
          (i > 1 /\ calls[i - 1].kind = "loop" /\ ~calls[i - 1].allow_tools)
              => calls[i].allow_tools
    /\ (pc = "send" /\ ~allow_tools) => error_history = <<>>

\* C4 as stated: the lockout does not end the session, and neither does the
\* model's reply to the tools-disabled call: the driver goes on to a further
\* loop call.
C4_SessionSurvivesLockout ==
    /\ transition = "lockout" => (pc = "send" /\ result = <<>>)
    /\ (/\ ~allow_tools
        /\ last_message # <<>>
        /\ last_message[1].stop_reason = "end_turn") => pc = "send"

\* C5: a loop call goes out with tools disabled exactly when the iteration
\* before it took the lockout exit, and the call that follows a tools-disabled
\* loop call has tools enabled.
C5_DisabledIffLockoutBefore ==
    [][ (pc = "send" /\ calls' # calls) =>
          /\ Last(calls').allow_tools = allow_tools'
          /\ (~allow_tools') <=> (transition = "lockout")
          /\ (calls # <<>> /\ ~allow_tools) => allow_tools' ]_vars

\* C5 witness: the third call went out with tools disabled and the fourth, in
\* the same loop, with tools enabled.
C5_Witness ==
    /\ Len(calls) = 4
    /\ calls[2].allow_tools
    /\ ~calls[3].allow_tools
    /\ calls[4].allow_tools
    /\ calls[4].kind = "loop"

\* C6: after a turn that holds a tool invocation and did not trigger the
\* lockout, whatever its stop reason and its failures, the conversation is the
\* one sent plus the assistant turn plus exactly one user turn with one result
\* per invocation, and the driver is back at sending: it has not returned.
C6_ToolTurnContinues ==
    (/\ last_message # <<>>
     /\ Invocations(last_message[1].content) # <<>>
     /\ transition # "lockout")
        => /\ transition = "continue"
           /\ pc = "send"
           /\ result = <<>>
           /\ Len(messages) = Last(calls).messages + 2
           /\ messages[Len(messages) - 1] =
                  [role |-> "assistant", content |-> last_message[1].content]
           /\ Last(messages).role = "user"
           /\ Len(Last(messages).content) = Len(Invocations(last_message[1].content))
           /\ \A k \in 1..Len(Last(messages).content) :
                  /\ Last(messages).content[k].type = "tool_result"
                  /\ Last(messages).content[k].tool_use_id =
                         Invocations(last_message[1].content)[k].id

\* C6 witness: a turn whose stop reason is end_turn and one of whose two
\* invocations failed was answered with the tool results.
C6_Witness ==
    /\ transition = "continue"
    /\ pc = "send"
    /\ last_message[1].stop_reason = "end_turn"
    /\ Len(current_errors) = 1
    /\ Len(Last(messages).content) = 2

\* run_coverage_report was invoked in some turn of the session.
CoverageInvoked ==
    \E k \in 1..Len(messages) : \E j \in 1..Len(messages[k].content) :
        /\ messages[k].content[j].type = "tool_use"
        /\ messages[k].content[j].name = "run_coverage_report"

\* The last response is pure text with stop reason end_turn.
TextEndTurn ==
    /\ last_message # <<>>
    /\ Invocations(last_message[1].content) = <<>>
    /\ last_message[1].stop_reason = "end_turn"

\* C7: on a pure-text end_turn turn of a task that requires the coverage report
\* while run_coverage_report was never invoked, the driver appends the reminder
\* as a user turn and goes back to sending, however many reminders came before;
\* the session ends by natural completion only once the precondition is met.
C7_ReminderInsteadOfReturn ==
    /\ (TextEndTurn /\ requires_coverage /\ ~CoverageInvoked)
          => /\ transition = "remind"
             /\ pc = "send"
             /\ result = <<>>
             /\ Len(messages) = Last(calls).messages + 2
             /\ messages[Len(messages) - 1] =
                    [role |-> "assistant", content |-> last_message[1].content]
             /\ Last(messages) = reminder_message
    /\ pc # "send"
          => \/ ~requires_coverage
             \/ CoverageInvoked
             \/ last_message = <<>>
             \/ last_message[1].stop_reason # "end_turn"

\* C7 witness: two reminders in a row, and the driver is about to call again.
C7_Witness ==
    /\ transition = "remind"
    /\ pc = "send"
    /\ Len(messages) = 5
    /\ messages[3] = reminder_message
    /\ messages[5] = reminder_message

\* C8: when send_message returns None the session returns "Task execution
\* incomplete" in that very step, with the conversation, the tool results, the
\* error history and the stored final output as they were, and a session that
\* has returned takes no further step (no retry, no further call).
C8_NoResponseIsFatal ==
    [][ /\ (pc = "send" /\ calls' # calls /\ last_message' = <<>>)
              => /\ pc' = "returned"
                 /\ result' = <<Incomplete>>
                 /\ Len(calls') = Len(calls) + 1
                 /\ messages' = messages
                 /\ tool_results' = tool_results
                 /\ error_history' = error_history
                 /\ LAST_FINAL_OUTPUT' = LAST_FINAL_OUTPUT
        /\ pc = "returned" => FALSE ]_vars

\* C8 witness: the second call of a session got no response.
C8_Witness ==
    /\ pc = "returned"
    /\ last_message = <<>>
    /\ Len(calls) = 2
    /\ Len(messages) = 3
    /\ result = <<Incomplete>>

\* C9: after a pure-text turn whose stop reason is not end_turn the session has
\* returned "Task execution incomplete", in player and in coach mode alike, and
\* nothing more can happen: no further call is made.
C9_OtherStopReasonsEnd ==
    (/\ last_message # <<>>
     /\ Invocations(last_message[1].content) = <<>>
     /\ last_message[1].stop_reason # "end_turn")
        => /\ pc = "returned"
           /\ result = <<Incomplete>>
           /\ Last(calls).kind = "loop"
           /\ ~ENABLED Next

\* C9 witness: a coach session ended on stop_sequence.
C9_Witness ==
    /\ mode = "coach"
    /\ pc = "returned"
    /\ last_message # <<>>
    /\ last_message[1].stop_reason = "stop_sequence"
    /\ result = <<Incomplete>>

\* The text blocks of a response, in order.
Texts(content) == SelectSeq(content, LAMBDA c : c.type = "text")

\* C10: a player session that completes naturally (pure text, end_turn,
\* precondition met) goes through get_code_summary_report: the conversation grows
\* by the summary request alone, exactly one further call goes out, with tools
\* disabled, and the session returns the first text segment of the response, or
\* "Task completed" when the response carries no text; the session fails to
\* return only when that call got no response at all.
C10_PlayerSummary ==
    /\ (TextEndTurn /\ mode = "player" /\ (~requires_coverage \/ coverage_report_called))
          => (transition = "end_turn" /\ pc \in {"summary", "returned", "raised"})
    /\ (mode = "player" /\ transition = "end_turn" /\ pc \in {"returned", "raised"})
          => /\ Len(calls) >= 2
             /\ Last(calls).kind = "summary"
             /\ ~Last(calls).allow_tools
             /\ \A i \in 1..(Len(calls) - 1) : calls[i].kind = "loop"
             /\ Last(messages) = summary_request
             /\ Last(calls).messages = Len(messages)
             /\ Len(messages) = calls[Len(calls) - 1].messages + 2
             /\ ~ENABLED Next
    /\ (mode = "player" /\ transition = "end_turn" /\ pc = "returned")
          => /\ summary_message # <<>>
             /\ result = <<IF /\ Texts(summary_message[1]) # <<>>
                              /\ Texts(summary_message[1])[1].text # ""
                           THEN Texts(summary_message[1])[1].text
                           ELSE "Task completed">>
    /\ pc = "raised" => summary_message = <<>>

\* C10 witness: the summary response held two text segments and the session
\* returned the first.
C10_Witness ==
    /\ mode = "player"
    /\ pc = "returned"
    /\ summary_message # <<>>
    /\ Len(Texts(summary_message[1])) = 2
    /\ result = <<"summary">>

\* final_output was invoked in some turn of the session.
FinalOutputInvoked ==
    \E k \in 1..Len(messages) : \E j \in 1..Len(messages[k].content) :
        /\ messages[k].content[j].type = "tool_use"
        /\ messages[k].content[j].name = "final_output"

\* C11 as stated: a coach session that completes naturally returns the payload
\* most recently recorded by final_output whenever final_output was invoked in
\* any turn of the session, a turn that also triggered the lockout included,
\* and returns the "ERROR: Coach mode requires calling final_output tool"
\* string only when no turn of the session invoked final_output.
C11_CoachReturnsPayload ==
    (mode = "coach" /\ pc = "returned" /\ transition = "end_turn")
        => /\ FinalOutputInvoked
                => (LAST_FINAL_OUTPUT # <<>> /\ result = LAST_FINAL_OUTPUT)
           /\ result = <<"ERROR: Coach mode requires calling final_output tool">>
                => ~FinalOutputInvoked

\* The indices of the invocations whose result reports a failure, in order.
FailedIndices(results) ==
    SelectSeq([k \in 1..Len(results) |-> k],
              LAMBDA k : \/ (results[k].content # <<>> /\ results[k].content[1] = "Error")
                         \/ "is_error" \in DOMAIN results[k])

\* C17: process_message_content returns one result per invocation of the
\* turn, in segment order and under the invocation's id; reports a tool use
\* exactly when the turn holds an invocation; lists as failures exactly the
\* (name, parameters) pairs of the invocations whose result text starts with
\* "Error" or whose execution raised, in order; and flags with is_error only
\* the result that wraps a raise.
C17_OneResultPerInvocation ==
    last_message # <<>> =>
        /\ has_tool_use = (Invocations(last_message[1].content) # <<>>)
        /\ Len(tool_results) = Len(Invocations(last_message[1].content))
        /\ \A k \in 1..Len(tool_results) :
              /\ tool_results[k].type = "tool_result"
              /\ tool_results[k].tool_use_id = Invocations(last_message[1].content)[k].id
              /\ "is_error" \in DOMAIN tool_results[k]
                    => tool_results[k].content = <<"Error", "executing tool:">>
        /\ current_errors =
              [j \in 1..Len(FailedIndices(tool_results)) |->
                  <<Invocations(last_message[1].content)[FailedIndices(tool_results)[j]].name,
                    Invocations(last_message[1].content)[FailedIndices(tool_results)[j]].input>>]

\* C17 witness: a turn of three invocations, the first of which succeeded and
\* the other two failed: three results, two failures.
C17_Witness ==
    /\ last_message # <<>>
    /\ Len(tool_results) = 3
    /\ tool_results[1].content[1] = "Successfully"
    /\ current_errors = << <<"call_shell", << <<"command", "cat build.log">> >> >>,
                           <<"call_shell", << <<"command", "cat build.log">> >> >> >>

-----------------------------------------------------------------------------
(* Properties of main *)

\* How many sessions of one mode main has started.
NumSessions(m) == Cardinality({k \in 1..Len(sessions) : sessions[k].mode = m})

\* C12 as stated: one run of main starts at most 3 player sessions and at most
\* 3 coach sessions, and once the third coach session has been started no
\* further session follows it: after the third rejection main gives up.
C12_AtMostThreeChains ==
    /\ NumSessions("player") <= MaxAttempts
    /\ NumSessions("coach") <= MaxAttempts
    /\ NumSessions("coach") = MaxAttempts => Last(sessions).mode = "coach"

\* text holds part as a contiguous substring.
Contains(text, part) ==
    \E i \in 1..(Len(text) - Len(part) + 1) : SubSeq(text, i, i + Len(part) - 1) = part

\* v is IMPLEMENTATION_APPROVED with at most one whitespace character before
\* and after it (the verdicts of this model carry no more).
Accepting(v) ==
    \E lead, trail \in {""} \cup Whitespace : v = lead \o APPROVED \o trail

\* This step is main taking back control from a coach session that returned.
CoachReturns == main_pc = "session" /\ pc = "returned" /\ mode = "coach"

\* C13: a coach verdict that equals IMPLEMENTATION_APPROVED after stripping
\* whitespace ends main in that very step with the approval notice alone and
\* no session started; any other verdict does not end main with an approval;
\* main prints nothing about the outcome while it runs, prints the giving-up
\* notice exactly when it ends on anything but an accepting verdict, and does
\* nothing once it has ended.
C13_EarlyExitOnApproval ==
    /\ [](main_pc \in {"session", "crashed"} => notices = <<>>)
    /\ [][ /\ (CoachReturns /\ Accepting(result[1]))
                => /\ main_pc' = "done"
                   /\ notices' = <<ApprovedNotice>>
                   /\ sessions' = sessions
                   /\ calls' = calls
           /\ (CoachReturns /\ ~Accepting(result[1]))
                => ApprovedNotice \notin {notices'[k] : k \in 1..Len(notices')}
           /\ (main_pc = "session" /\ main_pc' = "done")
                => (GivingUpNotice \in {notices'[k] : k \in 1..Len(notices')}
                        <=> ~(CoachReturns /\ Accepting(result[1])))
           /\ main_pc = "done" => FALSE ]_vars

\* C13 witness: the second coach session returned the approval wrapped in
\* whitespace and main ended with the approval notice after two attempts.
C13_Witness ==
    /\ main_pc = "done"
    /\ attempt = 2
    /\ verdict = <<" IMPLEMENTATION_APPROVED\n">>
    /\ notices = <<ApprovedNotice>>
    /\ Len(sessions) = 4

\* The text of the one block of a user message main wrote.
MessageText(message) == message.content[1].text

IsStrictPrefix(short, long) ==
    Len(short) < Len(long) /\ SubSeq(long, 1, Len(short)) = short

\* C15: while a coach session runs, main's list `messages` holds the player
\* conversation exactly as the player session before it left it; on a
\* rejection the next player session starts from that list extended by one
\* user message containing the verdict, so from a strict extension of the
\* whole conversation of the previous player attempt; and the conversations
\* the player sessions start from grow strictly from attempt to attempt.
C15_StrictlyMoreContext ==
    /\ [](\A i, j \in 1..Len(sessions) :
            (i < j /\ sessions[i].mode = "player" /\ sessions[j].mode = "player")
                => IsStrictPrefix(sessions[i].messages, sessions[j].messages))
    /\ [][ /\ (main_pc = "session" /\ mode = "player" /\ mode' = "coach")
                => main_messages' = messages
           /\ (mode = "coach" /\ mode' = "coach") => main_messages' = main_messages
           /\ (mode = "coach" /\ mode' = "player")
                => /\ IsStrictPrefix(main_messages, messages')
                   /\ Len(messages') = Len(main_messages) + 1
                   /\ Last(messages').role = "user"
                   /\ Contains(MessageText(Last(messages')), result[1])
                   /\ ~Accepting(result[1])
                   /\ Last(sessions').messages = messages'
                   /\ calls' = <<>> ]_vars

\* C15 witness: the second player attempt starts from the five messages the
\* first attempt left (requirements, answer, summary request) plus the feedback.
C15_Witness ==
    /\ main_pc = "session"
    /\ mode = "player"
    /\ calls = <<>>
    /\ Len(sessions) = 3
    /\ Len(messages) = 4
    /\ messages[3] = summary_request
    /\ Contains(MessageText(messages[4]), "IMPLEMENTATION_APPROVED but untested")

-----------------------------------------------------------------------------
(* Properties of the tools *)

\* The operating system refused or cut short what the tool asked of it.
SystemFailure(env) ==
    \/ env.kind \in {"timeout", "oserror"}
    \/ env.kind = "exit" /\ env.returncode # 0
    \/ env.kind = "file" /\ env.fails
    \/ env.kind = "dir" /\ env.fails = "write"
    \/ env.kind = "dir" /\ env.fails = "rename" /\ env.dir[0] # <<>>

\* The parameters are not the ones the tool declares.
BadParameters(name, input) ==
    \/ \E key \in RequiredParams(name) : key \notin Keys(input)
    \/ \E key \in Keys(input) : key \notin RequiredParams(name) \cup OptionalParams(name)

\* C16: whatever the tool name, the parameters and the operating system's
\* response, execute_tool lets no exception out and returns a text; the text
\* begins with "Error" for an unknown tool, for a missing or an extra
\* parameter, for an I/O failure inside the tool, for a shell timeout and for
\* a command that exits with a non-zero code.
C16_ExecuteToolNeverRaises ==
    tool_call # <<>> =>
        /\ ~tool_call[1].raised
        /\ DOMAIN tool_call[1].result = 1..Len(tool_call[1].result)
        /\ (\/ tool_call[1].name \notin {"call_shell", "write_file", "str_replace",
                                         "final_output"}
            \/ BadParameters(tool_call[1].name, tool_call[1].input)
            \/ SystemFailure(tool_call[1].env))
              => (tool_call[1].result # <<>> /\ tool_call[1].result[1] = "Error")

\* C16 witness: the four kinds of failure have each been met: the last call
\* timed out in the shell, and the file and the output directory are as a
\* refused write and a refused save left them.
C16_Witness ==
    /\ tool_call # <<>>
    /\ tool_call[1].name = "call_shell"
    /\ tool_call[1].env.kind = "timeout"
    /\ tool_call[1].result[1] = "Error"
    /\ written # <<>>
    /\ ~Last(written).saved

\* Every call of final_output so far saved its payload.
AllSaved == \A k \in 1..Len(written) : written[k].saved

\* C18: after N successful final_output writes into the empty output
\* directory, and no failed one, the unsuffixed file holds the N-th payload,
\* the file with suffix k holds the (N-k)-th for every k in 1..N-1, and no
\* other file exists: N files, every payload kept.
C18_RotationKeepsAll ==
    AllSaved =>
        /\ Len(written) > 0 => output_dir[0] = <<Last(written).summary>>
        /\ \A k \in 1..MaxVersions :
              output_dir[k] = IF k < Len(written)
                              THEN <<written[Len(written) - k].summary>>
                              ELSE <<>>
        /\ Cardinality({k \in DOMAIN output_dir : output_dir[k] # <<>>}) = Len(written)

\* C18 witness: three writes, the newest unsuffixed, the oldest under suffix 2.
C18_Witness ==
    /\ AllSaved
    /\ Len(written) = 3
    /\ written[1].summary = "v1"
    /\ written[2].summary = "v2"
    /\ written[3].summary = "v2"
    /\ output_dir[0] = <<"v2">>
    /\ output_dir[1] = <<"v2">>
    /\ output_dir[2] = <<"v1">>

-----------------------------------------------------------------------------
(* Properties of str_replace *)

\* Where the non-overlapping occurrences of part start in text, scanning left
\* to right from index `from`; the empty string occurs at every index and at
\* the end.
RECURSIVE OccurrencesFrom(_, _, _)
OccurrencesFrom(text, part, from) ==
    IF from + Len(part) - 1 > Len(text) THEN <<>>
    ELSE IF SubSeq(text, from, from + Len(part) - 1) = part
    THEN <<from>> \o OccurrencesFrom(text, part, from + (IF part = "" THEN 1 ELSE Len(part)))
    ELSE OccurrencesFrom(text, part, from + 1)

Occurrences(text, part) ==
    IF part = "" THEN [k \in 1..(Len(text) + 1) |-> k] ELSE OccurrencesFrom(text, part, 1)

\* text with the Len(old) characters at index at replaced by new.
ReplacedAt(text, at, old, new) ==
    SubSeq(text, 1, at - 1) \o new \o SubSeq(text, at + Len(old), Len(text))

\* text with each of the first n occurrences replaced, the rightmost first.
RECURSIVE ReplacedUpTo(_, _, _, _)
ReplacedUpTo(text, old, new, n) ==
    IF n = 0 THEN text
    ELSE ReplacedUpTo(ReplacedAt(text, Occurrences(text, old)[n], old, new), old, new, n - 1)

\* The last call was str_replace with the parameters it declares.
StrReplaceCalled ==
    /\ tool_call # <<>>
    /\ tool_call[1].name = "str_replace"
    /\ ~BadParameters(tool_call[1].name, tool_call[1].input)

\* C19 as stated: str_replace answers with an "Error" text and leaves the file
\* as it was whenever the file does not exist, old_str does not occur in the
\* file, or occurrence is neither -1 nor in 1..count, count being the number
\* of occurrences of old_str in the file; the same call made again gets the
\* same answer and leaves the same file.
C19_ErrorLeavesFile ==
    StrReplaceCalled =>
        LET before == tool_call[1].env.file
            old_str == Arg(tool_call[1].input, "old_str")
            occurrence == ArgOr(tool_call[1].input, "occurrence", -1)
        IN  (\/ before = <<>>
             \/ Occurrences(before[1], old_str) = <<>>
             \/ (occurrence # -1
                   /\ occurrence \notin 1..Len(Occurrences(before[1], old_str))))
              => /\ tool_call[1].result # <<>>
                 /\ tool_call[1].result[1] = "Error"
                 /\ file = before
                 /\ str_replace_outcome(tool_call[1].input,
                                        FileEnv(file, tool_call[1].env.fails))
                        = [result |-> tool_call[1].result, file |-> file]

\* C20 as stated: on a file with count >= 1 non-overlapping occurrences of a
\* non-empty old_str, str_replace with occurrence = k, 1 <= k <= count, leaves
\* the file with the k-th occurrence from the left replaced by new_str and
\* every other character as it was, and with occurrence = -1, given or left
\* out, with all count occurrences replaced.
C20_ReplacesKth ==
    (/\ StrReplaceCalled
     /\ ~tool_call[1].env.fails
     /\ tool_call[1].env.file # <<>>
     /\ Arg(tool_call[1].input, "old_str") # ""
     /\ Occurrences(tool_call[1].env.file[1], Arg(tool_call[1].input, "old_str")) # <<>>)
      => LET before == tool_call[1].env.file[1]
             old_str == Arg(tool_call[1].input, "old_str")
             new_str == Arg(tool_call[1].input, "new_str")
             occurrence == ArgOr(tool_call[1].input, "occurrence", -1)
             found == Occurrences(before, old_str)
         IN  /\ occurrence \in 1..Len(found)
                  => file = <<ReplacedAt(before, found[occurrence], old_str, new_str)>>
             /\ occurrence = -1
                  => file = <<ReplacedUpTo(before, old_str, new_str, Len(found))>>

-----------------------------------------------------------------------------
(* Properties of the conversation across the sessions of a run *)

IsPrefix(short, long) ==
    Len(short) <= Len(long) /\ SubSeq(long, 1, Len(short)) = short

\* main's list `messages`: the running player session works on it, and main
\* holds it while a coach session runs.
PlayerList(m, running, held) == IF m = "player" THEN running ELSE held

\* C21: the conversation is append-only.  Every step of a session leaves the
\* turns its conversation held in place and in order and only adds turns at
\* the end; every step of main does the same to the player conversation,
\* across the coach sessions in between and into each player re-run.  So each
\* value of a conversation extends every earlier value, and its length never
\* decreases.
C21_AppendOnly ==
    [][/\ (mode' = mode /\ sessions' = sessions) => IsPrefix(messages, messages')
       /\ IsPrefix(PlayerList(mode, messages, main_messages),
                   PlayerList(mode', messages', main_messages'))]_vars

\* A player re-run that has added turns to the conversation the first player
\* session and main's feedback left.
C21_Witness ==
    /\ Len(sessions) = 3
    /\ mode = "player"
    /\ IsStrictPrefix(sessions[1].messages, sessions[3].messages)
    /\ IsStrictPrefix(sessions[3].messages, messages)
    /\ transition = "lockout"

-----------------------------------------------------------------------------
(* Properties of the error history and the temperature *)

\* The last loop iteration processed a response without a tool invocation
\* and did not end the session.
TextTurnContinues ==
    /\ pc = "send"
    /\ last_message # <<>>
    /\ Invocations(last_message[1].content) = <<>>

\* C22 as stated: after every turn that holds no tool invocation and after
\* which the session continues, the error history is empty and the
\* temperature is 0.0, whatever they were before the turn.
C22_TextTurnClears ==
    TextTurnContinues => error_history = <<>> /\ temperature = BaselineTemperature

\* C23: the state of a session belongs to one call of execute_single_task.
\* Every session of a run, the first player session, each coach session and
\* each player re-run, is about to make its first call with temperature 0.0,
\* an empty error history, the tools enabled and neither the coverage nor the
\* final-output flag set, and makes that call with temperature 0.0 and with
\* tools, however the session before it ended.
C23_FreshSessionState ==
    /\ (main_pc = "session" /\ pc = "send" /\ calls = <<>>)
         => /\ temperature = BaselineTemperature
            /\ error_history = <<>>
            /\ ~disable_tools_next_call
            /\ ~coverage_report_called
            /\ ~final_output_called
    /\ (main_pc # "none" /\ calls # <<>>)
         => /\ calls[1].kind = "loop"
            /\ calls[1].temperature = BaselineTemperature
            /\ calls[1].allow_tools

\* A player re-run has made its first call.  The player session before it
\* ended when no response came after a turn of two identical failures (so at
\* temperature 1.0 with two entries in the history), and the coach session in
\* between returned after it had invoked final_output (so with its flag set).
C23_Witness ==
    /\ main_pc = "session"
    /\ Len(sessions) = 3
    /\ mode = "player"
    /\ Len(calls) = 1
    /\ verdict = <<"No final output provided">>
    /\ LET before == sessions[3].messages[Len(sessions[3].messages) - 1]
       IN  /\ before.role = "user"
           /\ Len(before.content) = REPEATED_ERROR_THRESHOLD
           /\ \A k \in 1..Len(before.content) :
                /\ before.content[k].type = "tool_result"
                /\ StartsWithError(before.content[k].content)

-----------------------------------------------------------------------------
(* Properties of the turns of a conversation *)

\* The user turn holds one tool_result per invocation of the assistant turn,
\* in order, and nothing else.
HoldsResultsFor(user, assistant) ==
    /\ user.role = "user"
    /\ Len(user.content) = Len(Invocations(assistant.content))
    /\ \A i \in 1..Len(user.content) :
         /\ user.content[i].type = "tool_result"
         /\ user.content[i].tool_use_id = Invocations(assistant.content)[i].id

\* C24 as stated: whenever the session is about to call the LLM, every
\* assistant turn of the conversation that holds tool invocations is followed
\* at once by a user turn with one tool_result for each of its invocation
\* ids, on every path, the turn that triggers the lockout included.
C24_InvocationsAnswered ==
    pc = "send" =>
        \A k \in 1..Len(messages) :
            (messages[k].role = "assistant" /\ Invocations(messages[k].content) # <<>>)
              => /\ k < Len(messages)
                 /\ HoldsResultsFor(messages[k + 1], messages[k])

-----------------------------------------------------------------------------
(* Properties of the completion payload across sessions *)

\* The running session's conversation holds an invocation of final_output
\* that stored the payload: one made with its parameter, equal to payload.
StoredInThisSession(payload) ==
    \E k \in 1..Len(messages) :
        /\ messages[k].role = "assistant"
        /\ \E i \in 1..Len(messages[k].content) :
             /\ messages[k].content[i].type = "tool_use"
             /\ StoresFinalOutput(messages[k].content[i].name, messages[k].content[i].input)
             /\ Arg(messages[k].content[i].input, "summary") = payload

\* The coach session returned what tools.LAST_FINAL_OUTPUT held.
CoachReturnedPayload ==
    /\ main_pc = "session"
    /\ mode = "coach"
    /\ pc = "returned"
    /\ transition = "end_turn"
    /\ final_output_called
    /\ LAST_FINAL_OUTPUT # <<>>
    /\ result = LAST_FINAL_OUTPUT

\* C25 as stated: a verdict a coach session returns from the completion
\* payload was recorded by an invocation of final_output executed during that
\* same session, also when the session's own invocation failed; a payload
\* written by an earlier session of the run is never returned.
C25_PayloadOfThisSession ==
    CoachReturnedPayload => StoredInThisSession(result[1])

-----------------------------------------------------------------------------
(* Properties of the lockout and of what counts as a failure *)

\* The tool results that answer the assistant turn at index k: <<>> when the
\* turn holds no invocation or was left without results.
ResultsOf(k) ==
    IF /\ messages[k].role = "assistant"
       /\ Invocations(messages[k].content) # <<>>
       /\ k < Len(messages)
       /\ messages[k + 1].content[1].type = "tool_result"
    THEN messages[k + 1].content
    ELSE <<>>

FailuresOf(k) == Len(SelectSeq(ResultsOf(k), LAMBDA r : StartsWithError(r.content)))

\* Going back from turn k until `missing` more failures are found, no turn
\* met on the way invoked tools that all succeeded.
RECURSIVE NoSuccessBack(_, _)
NoSuccessBack(k, missing) ==
    IF missing <= 0 \/ k < 1 THEN TRUE
    ELSE IF ResultsOf(k) # <<>> /\ FailuresOf(k) = 0 THEN FALSE
    ELSE NoSuccessBack(k - 1, missing - FailuresOf(k))

\* C26 as stated: the lockout fires only on 5 failures of one (tool,
\* parameters) pair with no turn between them in which tools were invoked and
\* all succeeded: such a turn between identical failures restarts the count.
C26_SuccessRestartsCount ==
    (pc = "send" /\ transition = "lockout")
      => NoSuccessBack(Len(messages) - 2, TOOL_FAILURE_THRESHOLD - Len(current_errors))

\* C27: whenever the session is about to call the LLM, the temperature is 0.0
\* or 1.0; at 1.0 the error history holds at least 2 entries, and with an
\* empty history the temperature is 0.0.  Every call made, the call for the
\* summary included, carried 0.0 or 1.0.
C27_TemperatureAndHistory ==
    /\ pc = "send"
         => /\ temperature \in {BaselineTemperature, ElevatedTemperature}
            /\ temperature = ElevatedTemperature
                 => Len(error_history) >= REPEATED_ERROR_THRESHOLD
            /\ error_history = <<>> => temperature = BaselineTemperature
    /\ \A k \in 1..Len(calls) :
         calls[k].temperature \in {BaselineTemperature, ElevatedTemperature}

\* The session called at 1.0, then a turn whose tools all succeeded brought
\* the temperature back to 0.0 and emptied the history, and it is about to
\* call again.
C27_Witness ==
    /\ pc = "send"
    /\ calls # <<>>
    /\ Last(calls).temperature = ElevatedTemperature
    /\ temperature = BaselineTemperature
    /\ error_history = <<>>
    /\ transition = "continue"

\* C28: the RETRY exit of the loop is never taken.  A turn that records a
\* failure has has_tool_use set and a non-empty tool_results list, so it takes
\* the CONTINUE exit; in a session no two assistant turns follow each other,
\* and every LLM call, made or about to be made, is issued on a conversation
\* whose last turn has role "user".
C28_RetryUnreachable ==
    /\ transition # "retry"
    /\ current_errors # <<>> => has_tool_use /\ tool_results # <<>>
    /\ \A k \in 1..(Len(messages) - 1) :
         ~(messages[k].role = "assistant" /\ messages[k + 1].role = "assistant")
    /\ pc = "send" => Last(messages).role = "user"
    /\ \A k \in 1..Len(calls) : messages[calls[k].messages].role = "user"

\* A turn recorded a failure and the provider gave end_turn as its stop
\* reason: the results went back and the session is about to call again.
C28_Witness ==
    /\ pc = "send"
    /\ current_errors # <<>>
    /\ last_message # <<>>
    /\ last_message[1].stop_reason = "end_turn"
    /\ transition = "continue"
    /\ Last(messages).role = "user"

\* The invocation is a call_shell command that exits with code 0 whatever the
\* operating system does with it.
ExitsWithZero(c) ==
    /\ c.name = "call_shell"
    /\ BindsParams(c.name, c.input)
    /\ \A e \in Env(c) : e.kind = "exit" /\ e.returncode = 0

Recorded(errors, c) == \E k \in 1..Len(errors) : errors[k] = <<c.name, c.input>>

\* C29 as stated: an invocation enters the failure list of its turn and the
\* error history only if the tool failed; a call_shell command that exits
\* with code 0 is in neither, whatever it wrote to standard output, and so
\* never counts towards the escalation or the lockout.
C29_ExitZeroIsNoFailure ==
    \A c \in {ShellLs, ShellCatLog} :
        ExitsWithZero(c) => ~Recorded(current_errors, c) /\ ~Recorded(error_history, c)

====
